---- MODULE Spec2Model ----
(***************************************************************************)
(* Model of src/cmd/dut.rs (lium): the `dut` subcommands do, list,         *)
(* discover and monitor.  One invocation of the binary runs one handler;   *)
(* the registry (SSH_CACHE) is the only state that survives an invocation. *)
(* Remote calls, registry calls and resolutions are the steps of a         *)
(* handler; their outcomes are chosen by the environment.                  *)
(***************************************************************************)
EXTENDS Integers, Sequences, FiniteSets, TLC

\* ---------------------------------------------------------------- bounds
MaxActions == 3     \* longest positional action list of `dut do`
NumIds     == 2     \* distinct device identities (dut_id values)
NumDescs   == 2     \* distinct connection descriptors (SshInfo values)
MaxCands   == 3     \* most candidates of one discovery
MaxDuts    == 3     \* most identifiers given to `dut monitor`

Ids     == 1..NumIds
NoId    == 0        \* info.get("dut_id") == None
Descs   == 1..NumDescs
NoDesc  == 0        \* no SshInfo
Targets == {"t1", "t2"}   \* raw target strings a caller may type
NoTarget == ""      \* Option::None for a raw target string

\* ---------------------------------------------------------------- state
VARIABLES
    cmd,        \* the subcommand run() dispatched to, "idle" before any
    pc,         \* position inside the running handler
    args,       \* the parsed Args* struct of the handler
    result,     \* what the handler returned: Running, Ok or Err
    stdout,     \* lines printed with println!
    cacheInit,  \* SSH_CACHE: the backing store exists and is readable
    cache,      \* SSH_CACHE: identity -> SshInfo
    cache0,     \* the mapping as run() found it (history, for the claims)
    last_add,   \* what the last --add stored, if nothing was removed or
                \* cleared since (history, for the claims)
    dut,        \* run_dut_do: the resolved target
    executed,   \* run_dut_do: the actions invoked so far, in order
    duts,       \* run_dut_list: the snapshot returned by entries()
    statuses,   \* run_dut_list: status computed by each parallel probe
    pending,    \* run_dut_list: entries of duts_to_be_removed not yet removed
    resolved,   \* run_dut_list: the DutInfo of --add
    addrs,      \* run_discover: the candidate list
    reach,      \* run_discover: which candidates answer (environment)
    probed,     \* run_discover: probes that have completed
    found,      \* run_discover: DutInfo collected by the fan-out
    remote_calls, \* run_discover: calls made on the --remote host
    targets,    \* run_dut_monitor: the MonitoredDut vector
    port,       \* run_dut_monitor: next local port
    cursor      \* index of the loop in progress (do, monitor)

vars == <<cmd, pc, args, result, stdout, cacheInit, cache, cache0, last_add,
          dut, executed,
          duts, statuses, pending, resolved, addrs, reach, probed, found,
          remote_calls, targets, port, cursor>>

registryVars == <<cacheInit, cache, last_add>>
doVars       == <<dut, executed>>
listVars     == <<duts, statuses, pending, resolved>>
discoverVars == <<addrs, reach, probed, found, remote_calls>>
monitorVars  == <<targets, port>>

\* ---------------------------------------------------------------- helpers
EmptyMap == [i \in {} |-> NoDesc]

SeqsUpTo(S, n) == UNION {[1..k -> S] : k \in 0..n}

RECURSIVE SelectSeqBy(_, _)
\* Iterator::filter(..).collect() over a Vec: keeps order and repeats
SelectSeqBy(s, keep) ==
    IF s = <<>> THEN <<>>
    ELSE (IF Head(s) \in keep THEN <<Head(s)>> ELSE <<>>)
         \o SelectSeqBy(Tail(s), keep)

Running == [kind |-> "Running", msg |-> "", names |-> <<>>]
Ok      == [kind |-> "Ok", msg |-> "", names |-> <<>>]
Err(m, ns) == [kind |-> "Err", msg |-> m, names |-> ns]

\* ---------------------------------------------------------------- run()
Idle == pc = "idle"

\* A fresh process: every local of the previous invocation is gone.
Fresh(c, a, p) ==
    /\ cmd' = c
    /\ args' = a
    /\ pc' = p
    /\ result' = Running
    /\ stdout' = <<>>
    /\ dut' = NoDesc
    /\ executed' = <<>>
    /\ duts' = EmptyMap
    /\ statuses' = EmptyMap
    /\ pending' = {}
    /\ resolved' = [id |-> NoId, ssh |-> NoDesc]
    /\ addrs' = <<>>
    /\ reach' = <<>>
    /\ probed' = {}
    /\ found' = {}
    /\ remote_calls' = <<>>
    /\ targets' = <<>>
    /\ port' = 0
    /\ cursor' = 0
    /\ cache0' = cache
    /\ UNCHANGED registryVars

\* the process exits; the next invocation starts from the registry it left
exit ==
    /\ pc = "done"
    /\ Fresh("idle", [none |-> TRUE], "idle")

Return(r) ==
    /\ result' = r
    /\ pc' = "done"

\* ---------------------------------------------------------------- dut do
DUT_ACTIONS == {"reboot", "login", "tail_messages"}

\* names a caller may type: the table's names and two that are not in it
ActionNames == DUT_ACTIONS \cup {"bogus", "nope"}

ArgsDutDo == [dut : {NoTarget} \cup Targets,
              actions : SeqsUpTo(ActionNames, MaxActions),
              list_actions : BOOLEAN]

unknown_actions(actions) == SelectSeqBy(actions, ActionNames \ DUT_ACTIONS)

start_dut_do ==
    /\ Idle
    /\ \E a \in ArgsDutDo : Fresh("do", a, "rsa")

\* cros::ensure_testing_rsa_is_there()? fails
run_dut_do_rsa_err ==
    /\ cmd = "do" /\ pc = "rsa"
    /\ Return(Err("testing_rsa", <<>>))
    /\ UNCHANGED <<cache0, cmd, args, stdout, registryVars, doVars, listVars,
                   discoverVars, monitorVars, cursor>>

\* --list-actions: print the keys of the table, return Ok
run_dut_do_list_actions ==
    /\ cmd = "do" /\ pc = "rsa"
    /\ args.list_actions
    /\ stdout' = Append(stdout, [line |-> "actions", keys |-> DUT_ACTIONS])
    /\ Return(Ok)
    /\ UNCHANGED <<cache0, cmd, args, registryVars, doVars, listVars,
                   discoverVars, monitorVars, cursor>>

\* validation of the names fails: unknown names, or an empty list
run_dut_do_unknown ==
    /\ cmd = "do" /\ pc = "rsa"
    /\ ~args.list_actions
    /\ unknown_actions(args.actions) # <<>> \/ args.actions = <<>>
    /\ Return(Err("Unknown action", unknown_actions(args.actions)))
    /\ UNCHANGED <<cache0, cmd, args, stdout, registryVars, doVars, listVars,
                   discoverVars, monitorVars, cursor>>

\* mutant: only the first name is looked up in the table
run_dut_do_validated_head_only ==
    /\ cmd = "do" /\ pc = "rsa"
    /\ ~args.list_actions
    /\ args.actions # <<>> /\ Head(args.actions) \in DUT_ACTIONS
    /\ pc' = "resolve"
    /\ UNCHANGED <<cache0, cmd, args, result, stdout, registryVars, doVars,
                   listVars, discoverVars, monitorVars, cursor>>

\* validation passes
run_dut_do_validated ==
    /\ cmd = "do" /\ pc = "rsa"
    /\ ~args.list_actions
    /\ ~(unknown_actions(args.actions) # <<>> \/ args.actions = <<>>)
    /\ pc' = "resolve"
    /\ UNCHANGED <<cache0, cmd, args, result, stdout, registryVars, doVars, listVars,
                   discoverVars, monitorVars, cursor>>

\* mutant: a missing --dut is reported before the names are validated
run_dut_do_no_dut_first ==
    /\ cmd = "do" /\ pc \in {"rsa", "resolve"}
    /\ ~args.list_actions
    /\ args.dut = NoTarget
    /\ Return(Err("Please specify --dut", <<>>))
    /\ UNCHANGED <<cache0, cmd, args, stdout, registryVars, doVars, listVars,
                   discoverVars, monitorVars, cursor>>

\* args.dut.as_ref().context("Please specify --dut")? on None
run_dut_do_no_dut ==
    /\ cmd = "do" /\ pc = "resolve"
    /\ args.dut = NoTarget
    /\ Return(Err("Please specify --dut", <<>>))
    /\ UNCHANGED <<cache0, cmd, args, stdout, registryVars, doVars, listVars,
                   discoverVars, monitorVars, cursor>>

\* SshInfo::new(..)? fails
run_dut_do_resolve_err ==
    /\ cmd = "do" /\ pc = "resolve"
    /\ args.dut # NoTarget
    /\ Return(Err("SshInfo::new", <<>>))
    /\ UNCHANGED <<cache0, cmd, args, stdout, registryVars, doVars, listVars,
                   discoverVars, monitorVars, cursor>>

\* SshInfo::new(..)? succeeds; the for loop starts at the first pair
run_dut_do_resolve_ok ==
    /\ cmd = "do" /\ pc = "resolve"
    /\ args.dut # NoTarget
    /\ \E ssh \in Descs : dut' = ssh
    /\ cursor' = 1
    /\ pc' = "exec"
    /\ UNCHANGED <<cache0, cmd, args, result, stdout, registryVars, executed,
                   listVars, discoverVars, monitorVars>>

\* for (name, f) in actions: the pair the loop is at
actions_zip(actions) ==
    [i \in 1..Len(SelectSeqBy(actions, DUT_ACTIONS)) |->
        [name |-> actions[i], f |-> SelectSeqBy(actions, DUT_ACTIONS)[i]]]

\* f(dut) returns Ok
run_dut_do_action_ok ==
    /\ cmd = "do" /\ pc = "exec"
    /\ cursor <= Len(actions_zip(args.actions))
    /\ executed' = Append(executed,
                          [f |-> actions_zip(args.actions)[cursor].f,
                           dut |-> dut, ok |-> TRUE])
    /\ cursor' = cursor + 1
    /\ UNCHANGED <<cache0, cmd, pc, args, result, stdout, registryVars, dut,
                   listVars, discoverVars, monitorVars>>

\* mutant: the error of f(dut) is dropped and the loop goes on
run_dut_do_action_err_ignored ==
    /\ cmd = "do" /\ pc = "exec"
    /\ cursor <= Len(actions_zip(args.actions))
    /\ executed' = Append(executed,
                          [f |-> actions_zip(args.actions)[cursor].f,
                           dut |-> dut, ok |-> FALSE])
    /\ cursor' = cursor + 1
    /\ UNCHANGED <<cache0, cmd, pc, args, result, stdout, registryVars, dut,
                   listVars, discoverVars, monitorVars>>

\* f(dut) returns Err: `?` leaves the loop with the action's name as context
run_dut_do_action_err ==
    /\ cmd = "do" /\ pc = "exec"
    /\ cursor <= Len(actions_zip(args.actions))
    /\ executed' = Append(executed,
                          [f |-> actions_zip(args.actions)[cursor].f,
                           dut |-> dut, ok |-> FALSE])
    /\ Return(Err("DUT action", <<actions_zip(args.actions)[cursor].name>>))
    /\ UNCHANGED <<cache0, cmd, args, stdout, registryVars, dut, listVars,
                   discoverVars, monitorVars, cursor>>

\* the loop is exhausted
run_dut_do_ok ==
    /\ cmd = "do" /\ pc = "exec"
    /\ cursor > Len(actions_zip(args.actions))
    /\ Return(Ok)
    /\ UNCHANGED <<cache0, cmd, args, stdout, registryVars, doVars, listVars,
                   discoverVars, monitorVars, cursor>>

run_dut_do ==
    \/ run_dut_do_list_actions
    \/ run_dut_do_rsa_err
    \/ run_dut_do_unknown
    \/ run_dut_do_validated
    \/ run_dut_do_no_dut
    \/ run_dut_do_resolve_err
    \/ run_dut_do_resolve_ok
    \/ run_dut_do_action_ok
    \/ run_dut_do_action_err
    \/ run_dut_do_ok

\* ---------------------------------------------------------------- SSH_CACHE
\* The registry lives in lium::dut; its contract is section 4.1 of the
\* specification.  Every call may also fail with an I/O error, which leaves
\* the store as it was.
SSH_CACHE_entries_ok == cacheInit

SSH_CACHE_set(m, id, ssh) ==
    [k \in DOMAIN m \cup {id} |-> IF k = id THEN ssh ELSE m[k]]

SSH_CACHE_remove(m, id) ==
    [k \in DOMAIN m \ {id} |-> m[k]]

SSH_CACHE_clear(m) == EmptyMap

\* ---------------------------------------------------------------- dut list
ArgsDutList == [clear : BOOLEAN, ids : BOOLEAN, status : BOOLEAN,
                add : {NoTarget} \cup Targets,
                remove : {NoId} \cup Ids,
                update : BOOLEAN]

DutStatus == {"Online", "Offline", "AddressReused"}

\* what DutInfo::new(id).map(|e| e.info().clone()) can give a probe:
\* an error, or attributes whose "dut_id" is some identity or is missing
ProbeOutcomes == {[ok |-> FALSE, dut_id |-> NoId]}
                 \cup [ok : {TRUE}, dut_id : {NoId} \cup Ids]

\* a probe that has not completed yet
Pending == [status |-> "Pending", info |-> [ok |-> FALSE, dut_id |-> NoId]]

\* mutant: a missing "dut_id" is taken for the expected one
probe_status_missing_is_online(id, info) ==
    IF info.ok
    THEN IF info.dut_id = NoId \/ id = info.dut_id
         THEN "Online"
         ELSE "AddressReused"
    ELSE "Offline"

\* the closure of par_iter().map(..): lines 371-381
probe_status(id, info) ==
    IF info.ok
    THEN IF info.dut_id # NoId /\ id = info.dut_id
         THEN "Online"
         ELSE "AddressReused"
    ELSE "Offline"

Rows(m, st, keep) ==
    {[id |-> id, status |-> st[id].status, ssh |-> m[id]] :
        id \in {k \in DOMAIN m : st[k].status \in keep}}

\* mutant: the partition is made whether or not --update was given
duts_to_be_removed_always(m, st, update) == Rows(m, st, {"AddressReused"})

\* mutant: --update drops every entry that is not Online
duts_to_be_removed_not_online(m, st, update) ==
    IF update THEN Rows(m, st, {"AddressReused", "Offline"}) ELSE {}

\* lines 385-398
duts_to_be_removed(m, st, update) ==
    IF update THEN Rows(m, st, {"AddressReused"}) ELSE {}

\* mutant: only the entries that answered are printed
duts_reported_online_only(m, st, update) == Rows(m, st, {"Online"})

duts_reported(m, st, update) ==
    IF update THEN Rows(m, st, DutStatus \ {"AddressReused"})
    ELSE Rows(m, st, DutStatus)

start_dut_list ==
    /\ Idle
    /\ \E a \in ArgsDutList : Fresh("list", a, "clear")

\* mutant: --ids is looked at before --clear
run_dut_list_clear_after_ids ==
    /\ cmd = "list" /\ pc = "clear"
    /\ args.clear
    /\ IF args.ids
       THEN /\ stdout' = Append(stdout, [line |-> "ids", keys |-> DOMAIN cache])
            /\ UNCHANGED registryVars
       ELSE /\ cache' = SSH_CACHE_clear(cache)
            /\ cacheInit' = TRUE
            /\ last_add' = [id |-> NoId, ssh |-> NoDesc]
            /\ UNCHANGED stdout
    /\ Return(Ok)
    /\ UNCHANGED <<cache0, cmd, args, doVars, listVars, discoverVars,
                   monitorVars, cursor>>

\* --clear: return SSH_CACHE.clear()
run_dut_list_clear_ok ==
    /\ cmd = "list" /\ pc = "clear"
    /\ args.clear
    /\ cache' = SSH_CACHE_clear(cache)
    /\ cacheInit' = TRUE
    /\ last_add' = [id |-> NoId, ssh |-> NoDesc]
    /\ Return(Ok)
    /\ UNCHANGED <<cache0, cmd, args, stdout, doVars, listVars, discoverVars,
                   monitorVars, cursor>>

run_dut_list_clear_err ==
    /\ cmd = "list" /\ pc = "clear"
    /\ args.clear
    /\ Return(Err("SSH_CACHE.clear", <<>>))
    /\ UNCHANGED <<cache0, cmd, args, stdout, registryVars, doVars, listVars,
                   discoverVars, monitorVars, cursor>>

\* mutant: an unreadable store is taken for an empty one
run_dut_list_entries_err_as_empty ==
    /\ cmd = "list" /\ pc = "clear"
    /\ ~args.clear
    /\ ~SSH_CACHE_entries_ok
    /\ duts' = EmptyMap
    /\ pc' = "branch"
    /\ UNCHANGED <<cache0, cmd, args, result, stdout, registryVars, doVars,
                   statuses, pending, resolved, discoverVars, monitorVars,
                   cursor>>

\* SSH_CACHE.entries().context(..)? fails
run_dut_list_entries_err ==
    /\ cmd = "list" /\ pc = "clear"
    /\ ~args.clear
    /\ ~SSH_CACHE_entries_ok
    /\ Return(Err("SSH_CACHE is not initialized yet", <<>>))
    /\ UNCHANGED <<cache0, cmd, args, stdout, registryVars, doVars, listVars,
                   discoverVars, monitorVars, cursor>>

\* let duts = SSH_CACHE.entries()..?: a copy of the mapping
run_dut_list_entries_ok ==
    /\ cmd = "list" /\ pc = "clear"
    /\ ~args.clear
    /\ SSH_CACHE_entries_ok
    /\ duts' = cache
    /\ pc' = "branch"
    /\ UNCHANGED <<cache0, cmd, args, result, stdout, registryVars, doVars,
                   statuses, pending, resolved, discoverVars, monitorVars,
                   cursor>>

\* --ids
run_dut_list_ids ==
    /\ cmd = "list" /\ pc = "branch"
    /\ args.ids
    /\ stdout' = Append(stdout, [line |-> "ids", keys |-> DOMAIN duts])
    /\ Return(Ok)
    /\ UNCHANGED <<cache0, cmd, args, registryVars, doVars, listVars, discoverVars,
                   monitorVars, cursor>>

\* --add: DutInfo::new(dut_to_add)? fails
run_dut_list_add_resolve_err ==
    /\ cmd = "list" /\ pc = "branch"
    /\ ~args.ids /\ args.add # NoTarget
    /\ Return(Err("DutInfo::new", <<>>))
    /\ UNCHANGED <<cache0, cmd, args, stdout, registryVars, doVars, listVars,
                   discoverVars, monitorVars, cursor>>

\* --add: DutInfo::new(dut_to_add)? gives info.id() and info.ssh()
run_dut_list_add_resolve_ok ==
    /\ cmd = "list" /\ pc = "branch"
    /\ ~args.ids /\ args.add # NoTarget
    /\ \E id \in Ids, ssh \in Descs : resolved' = [id |-> id, ssh |-> ssh]
    /\ pc' = "set"
    /\ UNCHANGED <<cache0, cmd, args, result, stdout, registryVars, doVars, duts,
                   statuses, pending, discoverVars, monitorVars, cursor>>

\* mutant: an identity that is already cached is not written again
run_dut_list_add_set_if_new ==
    /\ cmd = "list" /\ pc = "set"
    /\ cache' = IF resolved.id \in DOMAIN duts
                THEN cache
                ELSE SSH_CACHE_set(cache, resolved.id, resolved.ssh)
    /\ last_add' = resolved
    /\ stdout' = Append(stdout, [line |-> "Added", id |-> resolved.id,
                                 ssh |-> resolved.ssh])
    /\ Return(Ok)
    /\ UNCHANGED <<cache0, cmd, args, cacheInit, doVars, listVars,
                   discoverVars, monitorVars, cursor>>

\* --add: SSH_CACHE.set(id, ssh.clone())? and the "Added" line
run_dut_list_add_set_ok ==
    /\ cmd = "list" /\ pc = "set"
    /\ cache' = SSH_CACHE_set(cache, resolved.id, resolved.ssh)
    /\ last_add' = resolved
    /\ stdout' = Append(stdout, [line |-> "Added", id |-> resolved.id,
                                 ssh |-> resolved.ssh])
    /\ Return(Ok)
    /\ UNCHANGED <<cache0, cmd, args, cacheInit, doVars, listVars, discoverVars,
                   monitorVars, cursor>>

run_dut_list_add_set_err ==
    /\ cmd = "list" /\ pc = "set"
    /\ Return(Err("SSH_CACHE.set", <<>>))
    /\ UNCHANGED <<cache0, cmd, args, stdout, registryVars, doVars, listVars,
                   discoverVars, monitorVars, cursor>>

\* mutant: an identity that is not cached is refused
run_dut_list_remove_known_only ==
    /\ cmd = "list" /\ pc = "branch"
    /\ ~args.ids /\ args.add = NoTarget /\ args.remove # NoId
    /\ IF args.remove \in DOMAIN duts
       THEN /\ cache' = SSH_CACHE_remove(cache, args.remove)
            /\ Return(Ok)
       ELSE /\ cache' = cache
            /\ Return(Err("No such DUT", <<>>))
    /\ last_add' = [id |-> NoId, ssh |-> NoDesc]
    /\ UNCHANGED <<cache0, cmd, args, stdout, cacheInit, doVars, listVars,
                   discoverVars, monitorVars, cursor>>

\* mutant: --remove is applied whether or not --add was given
run_dut_list_remove_beside_add ==
    /\ cmd = "list" /\ pc = "branch"
    /\ ~args.ids /\ args.remove # NoId
    /\ cache' = SSH_CACHE_remove(cache, args.remove)
    /\ last_add' = [id |-> NoId, ssh |-> NoDesc]
    /\ Return(Ok)
    /\ UNCHANGED <<cache0, cmd, args, stdout, cacheInit, doVars, listVars,
                   discoverVars, monitorVars, cursor>>

\* --remove: SSH_CACHE.remove(dut_to_remove)?
run_dut_list_remove_ok ==
    /\ cmd = "list" /\ pc = "branch"
    /\ ~args.ids /\ args.add = NoTarget /\ args.remove # NoId
    /\ cache' = SSH_CACHE_remove(cache, args.remove)
    /\ last_add' = [id |-> NoId, ssh |-> NoDesc]
    /\ Return(Ok)
    /\ UNCHANGED <<cache0, cmd, args, stdout, cacheInit, doVars, listVars,
                   discoverVars, monitorVars, cursor>>

run_dut_list_remove_err ==
    /\ cmd = "list" /\ pc = "branch"
    /\ ~args.ids /\ args.add = NoTarget /\ args.remove # NoId
    /\ Return(Err("SSH_CACHE.remove", <<>>))
    /\ UNCHANGED <<cache0, cmd, args, stdout, registryVars, doVars, listVars,
                   discoverVars, monitorVars, cursor>>

\* --status / --update: the par_iter fan-out starts, one probe per entry
run_dut_list_fanout ==
    /\ cmd = "list" /\ pc = "branch"
    /\ ~args.ids /\ args.add = NoTarget /\ args.remove = NoId
    /\ args.status \/ args.update
    /\ statuses' = [id \in DOMAIN duts |-> Pending]
    /\ pc' = "probe"
    /\ UNCHANGED <<cache0, cmd, args, result, stdout, registryVars, doVars, duts,
                   pending, resolved, discoverVars, monitorVars, cursor>>

\* mutant: under --update a probe that finds the address reused removes the
\* entry itself, while the other probes are still running
run_dut_list_probe_prunes ==
    /\ cmd = "list" /\ pc = "probe"
    /\ \E id \in DOMAIN duts, info \in ProbeOutcomes :
        /\ statuses[id] = Pending
        /\ statuses' = [statuses EXCEPT
                ![id] = [status |-> probe_status(id, info), info |-> info]]
        /\ IF args.update /\ probe_status(id, info) = "AddressReused"
           THEN /\ cache' = SSH_CACHE_remove(cache, id)
                /\ last_add' = [id |-> NoId, ssh |-> NoDesc]
           ELSE UNCHANGED <<cache, last_add>>
    /\ UNCHANGED <<cache0, cmd, pc, args, result, stdout, cacheInit, doVars, duts,
                   pending, resolved, discoverVars, monitorVars, cursor>>

\* one probe of the fan-out completes, in any order
run_dut_list_probe ==
    /\ cmd = "list" /\ pc = "probe"
    /\ \E id \in DOMAIN duts, info \in ProbeOutcomes :
        /\ statuses[id] = Pending
        /\ statuses' = [statuses EXCEPT
                ![id] = [status |-> probe_status(id, info), info |-> info]]
    /\ UNCHANGED <<cache0, cmd, pc, args, result, stdout, registryVars, doVars, duts,
                   pending, resolved, discoverVars, monitorVars, cursor>>

\* collect() has joined every probe: partition and print the kept rows
run_dut_list_report ==
    /\ cmd = "list" /\ pc = "probe"
    /\ \A id \in DOMAIN duts : statuses[id] # Pending
    /\ pending' = duts_to_be_removed(duts, statuses, args.update)
    /\ IF duts_to_be_removed(duts, statuses, args.update) = {}
       THEN /\ stdout' = Append(stdout,
                    [line |-> "status",
                     rows |-> duts_reported(duts, statuses, args.update)])
            /\ Return(Ok)
       ELSE /\ stdout' = stdout \o
                    <<[line |-> "status",
                       rows |-> duts_reported(duts, statuses, args.update)],
                      [line |-> "Following DUTs are removed: "]>>
            /\ pc' = "remove"
            /\ UNCHANGED result
    /\ UNCHANGED <<cache0, cmd, args, registryVars, doVars, duts, statuses, resolved,
                   discoverVars, monitorVars, cursor>>

\* for dut in duts_to_be_removed: println, SSH_CACHE.remove(&dut.0)?
run_dut_list_prune_ok ==
    /\ cmd = "list" /\ pc = "remove"
    /\ \E row \in pending :
        /\ stdout' = Append(stdout, [line |-> "removed", row |-> row])
        /\ cache' = SSH_CACHE_remove(cache, row.id)
        /\ last_add' = [id |-> NoId, ssh |-> NoDesc]
        /\ pending' = pending \ {row}
        /\ IF pending \ {row} = {}
           THEN Return(Ok)
           ELSE UNCHANGED <<pc, result>>
    /\ UNCHANGED <<cache0, cmd, args, cacheInit, doVars, duts, statuses, resolved,
                   discoverVars, monitorVars, cursor>>

run_dut_list_prune_err ==
    /\ cmd = "list" /\ pc = "remove"
    /\ \E row \in pending :
        stdout' = Append(stdout, [line |-> "removed", row |-> row])
    /\ Return(Err("SSH_CACHE.remove", <<>>))
    /\ UNCHANGED <<cache0, cmd, args, registryVars, doVars, listVars, discoverVars,
                   monitorVars, cursor>>

\* mutant: the listing starts after the first entry
run_dut_list_plain_skip_first ==
    /\ cmd = "list" /\ pc = "branch"
    /\ ~args.ids /\ args.add = NoTarget /\ args.remove = NoId
    /\ ~(args.status \/ args.update)
    /\ stdout' = Append(stdout,
            [line |-> "list",
             rows |-> {[id |-> id, ssh |-> duts[id]] :
                        id \in {k \in DOMAIN duts :
                                    \E j \in DOMAIN duts : j < k}}])
    /\ Return(Ok)
    /\ UNCHANGED <<cache0, cmd, args, registryVars, doVars, listVars,
                   discoverVars, monitorVars, cursor>>

\* no flag: print every cached entry
run_dut_list_plain ==
    /\ cmd = "list" /\ pc = "branch"
    /\ ~args.ids /\ args.add = NoTarget /\ args.remove = NoId
    /\ ~(args.status \/ args.update)
    /\ stdout' = Append(stdout,
            [line |-> "list",
             rows |-> {[id |-> id, ssh |-> duts[id]] : id \in DOMAIN duts}])
    /\ Return(Ok)
    /\ UNCHANGED <<cache0, cmd, args, registryVars, doVars, listVars, discoverVars,
                   monitorVars, cursor>>

run_dut_list ==
    \/ run_dut_list_clear_ok
    \/ run_dut_list_clear_err
    \/ run_dut_list_entries_err
    \/ run_dut_list_entries_ok
    \/ run_dut_list_ids
    \/ run_dut_list_add_resolve_err
    \/ run_dut_list_add_resolve_ok
    \/ run_dut_list_add_set_ok
    \/ run_dut_list_add_set_err
    \/ run_dut_list_remove_ok
    \/ run_dut_list_remove_err
    \/ run_dut_list_fanout
    \/ run_dut_list_probe
    \/ run_dut_list_report
    \/ run_dut_list_prune_ok
    \/ run_dut_list_prune_err
    \/ run_dut_list_plain

\* ---------------------------------------------------------------- dut discover
ExtraAttrs == {<<>>, <<"board">>}

ArgsDiscover == [interface : BOOLEAN,
                 remote : {NoTarget} \cup Targets,
                 target_list : BOOLEAN,
                 extra_attr : ExtraAttrs]

\* let mut cmd = "~/lium dut discover"; for ea in extra_attr { cmd += " " + ea }
discover_cmd(extra_attr) == <<"~/lium dut discover">> \o extra_attr

\* lines 495-501: one candidate per non-blank line, in order.
\* A line is a descriptor or NoDesc for a blank line.
parse_target_list(lines) == SelectSeqBy(lines, Descs)

start_discover ==
    /\ Idle
    /\ \E a \in ArgsDiscover : Fresh("discover", a, "mode")

\* --remote: current_exe()?, SshInfo::new(remote)? or send_files(..)? fails
run_discover_remote_send_err ==
    /\ cmd = "discover" /\ pc = "mode"
    /\ args.remote # NoTarget
    /\ Return(Err("remote setup", <<>>))
    /\ UNCHANGED <<cache0, cmd, args, stdout, registryVars, doVars, listVars,
                   discoverVars, monitorVars, cursor>>

\* --remote: the executable is copied to ~/ on the remote host
run_discover_remote_send_ok ==
    /\ cmd = "discover" /\ pc = "mode"
    /\ args.remote # NoTarget
    /\ remote_calls' = Append(remote_calls, <<"send_files", "~/">>)
    /\ pc' = "remote_run"
    /\ UNCHANGED <<cache0, cmd, args, result, stdout, registryVars, doVars, listVars,
                   addrs, reach, probed, found, monitorVars, cursor>>

\* --remote: remote.run_cmd_piped(&[cmd])?; return Ok(())
run_discover_remote_run_ok ==
    /\ cmd = "discover" /\ pc = "remote_run"
    /\ remote_calls' = Append(remote_calls, discover_cmd(args.extra_attr))
    /\ Return(Ok)
    /\ UNCHANGED <<cache0, cmd, args, stdout, registryVars, doVars, listVars,
                   addrs, reach, probed, found, monitorVars, cursor>>

run_discover_remote_run_err ==
    /\ cmd = "discover" /\ pc = "remote_run"
    /\ remote_calls' = Append(remote_calls, discover_cmd(args.extra_attr))
    /\ Return(Err("run_cmd_piped", <<>>))
    /\ UNCHANGED <<cache0, cmd, args, stdout, registryVars, doVars, listVars,
                   addrs, reach, probed, found, monitorVars, cursor>>

\* reading the list, or discover_local_nodes(..), fails
run_discover_enumerate_err ==
    /\ cmd = "discover" /\ pc = "mode"
    /\ args.remote = NoTarget
    /\ Return(Err("enumerate", <<>>))
    /\ UNCHANGED <<cache0, cmd, args, stdout, registryVars, doVars, listVars,
                   discoverVars, monitorVars, cursor>>

\* mutant: a target list is read whether or not --remote was given
run_discover_target_list_beside_remote ==
    /\ cmd = "discover" /\ pc = "mode"
    /\ args.target_list
    /\ \E lines \in SeqsUpTo({NoDesc} \cup Descs, MaxCands) :
        addrs' = parse_target_list(lines)
    /\ pc' = "fetch"
    /\ UNCHANGED <<cache0, cmd, args, result, stdout, registryVars, doVars, listVars,
                   reach, probed, found, remote_calls, monitorVars, cursor>>

\* --target-list: the candidates are the non-blank lines of the list
run_discover_target_list ==
    /\ cmd = "discover" /\ pc = "mode"
    /\ args.remote = NoTarget
    /\ args.target_list
    /\ \E lines \in SeqsUpTo({NoDesc} \cup Descs, MaxCands) :
        addrs' = parse_target_list(lines)
    /\ pc' = "fetch"
    /\ UNCHANGED <<cache0, cmd, args, result, stdout, registryVars, doVars, listVars,
                   reach, probed, found, remote_calls, monitorVars, cursor>>

\* otherwise discover_local_nodes(args.interface)
run_discover_local_nodes ==
    /\ cmd = "discover" /\ pc = "mode"
    /\ args.remote = NoTarget
    /\ ~args.target_list
    /\ \E nodes \in SeqsUpTo(Descs, MaxCands) : addrs' = nodes
    /\ pc' = "fetch"
    /\ UNCHANGED <<cache0, cmd, args, result, stdout, registryVars, doVars, listVars,
                   reach, probed, found, remote_calls, monitorVars, cursor>>

\* fetch_dut_info_in_parallel(..)? returns an error of its own
run_discover_fetch_err ==
    /\ cmd = "discover" /\ pc = "fetch"
    /\ Return(Err("fetch_dut_info_in_parallel", <<>>))
    /\ UNCHANGED <<cache0, cmd, args, stdout, registryVars, doVars, listVars,
                   discoverVars, monitorVars, cursor>>

\* fetch_dut_info_in_parallel: one probe per candidate is started; the
\* environment fixes which candidates answer within the timeout
fetch_dut_info_fanout ==
    /\ cmd = "discover" /\ pc = "fetch"
    /\ \E r \in [1..Len(addrs) -> BOOLEAN] : reach' = r
    /\ pc' = "probe"
    /\ UNCHANGED <<cache0, cmd, args, result, stdout, registryVars, doVars, listVars,
                   addrs, probed, found, remote_calls, monitorVars, cursor>>

\* mutant: a probe that fails throws away what its siblings collected
fetch_dut_info_collect_abort(res, i, ok) == IF ok THEN res \cup {i} ELSE {}

\* what the completion of probe i does to the collected results
fetch_dut_info_collect(res, i, ok) == IF ok THEN res \cup {i} ELSE res

\* one probe completes, in any order
fetch_dut_info_probe ==
    /\ cmd = "discover" /\ pc = "probe"
    /\ \E i \in (1..Len(addrs)) \ probed :
        /\ probed' = probed \cup {i}
        /\ found' = fetch_dut_info_collect(found, i, reach[i])
    /\ UNCHANGED <<cache0, cmd, pc, args, result, stdout, registryVars, doVars,
                   listVars, addrs, reach, remote_calls, monitorVars, cursor>>

\* lines 507-512: every probe has been joined; print the result list
run_discover_report ==
    /\ cmd = "discover" /\ pc = "probe"
    /\ probed = 1..Len(addrs)
    /\ stdout' = Append(stdout,
            [line |-> "dut_list", duts |-> [i \in found |-> addrs[i]]])
    /\ Return(Ok)
    /\ UNCHANGED <<cache0, cmd, args, registryVars, doVars, listVars, discoverVars,
                   monitorVars, cursor>>

run_discover ==
    \/ run_discover_remote_send_err
    \/ run_discover_remote_send_ok
    \/ run_discover_remote_run_ok
    \/ run_discover_remote_run_err
    \/ run_discover_enumerate_err
    \/ run_discover_target_list
    \/ run_discover_local_nodes
    \/ run_discover_fetch_err
    \/ fetch_dut_info_fanout
    \/ fetch_dut_info_probe
    \/ run_discover_report

\* ---------------------------------------------------------------- dut monitor
BasePort == 4022

ArgsDutMonitor == [duts : SeqsUpTo(Targets, MaxDuts)]

start_dut_monitor ==
    /\ Idle
    /\ \E a \in ArgsDutMonitor : Fresh("monitor", a, "rsa")

\* cros::ensure_testing_rsa_is_there()? fails
run_dut_monitor_rsa_err ==
    /\ cmd = "monitor" /\ pc = "rsa"
    /\ Return(Err("testing_rsa", <<>>))
    /\ UNCHANGED <<cache0, cmd, args, stdout, registryVars, doVars, listVars,
                   discoverVars, monitorVars, cursor>>

\* let mut targets = Vec::new(); let mut port = 4022;
run_dut_monitor_begin ==
    /\ cmd = "monitor" /\ pc = "rsa"
    /\ targets' = <<>>
    /\ port' = BasePort
    /\ cursor' = 1
    /\ pc' = "new"
    /\ UNCHANGED <<cache0, cmd, args, result, stdout, registryVars, doVars, listVars,
                   discoverVars>>

\* MonitoredDut::new(dut, port)
MonitoredDut_new(d, p) == [dut |-> d, port |-> p, child |-> "up"]

\* mutant: the port is not advanced after a push
run_dut_monitor_new_same_port ==
    /\ cmd = "monitor" /\ pc = "new"
    /\ cursor <= Len(args.duts)
    /\ targets' = Append(targets, MonitoredDut_new(args.duts[cursor], port))
    /\ port' = port
    /\ cursor' = cursor + 1
    /\ UNCHANGED <<cache0, cmd, pc, args, result, stdout, registryVars,
                   doVars, listVars, discoverVars>>

\* targets.push(MonitoredDut::new(dut, port)?); port += 1;
run_dut_monitor_new_ok ==
    /\ cmd = "monitor" /\ pc = "new"
    /\ cursor <= Len(args.duts)
    /\ targets' = Append(targets, MonitoredDut_new(args.duts[cursor], port))
    /\ port' = port + 1
    /\ cursor' = cursor + 1
    /\ UNCHANGED <<cache0, cmd, pc, args, result, stdout, registryVars, doVars,
                   listVars, discoverVars>>

\* mutant: a target whose session cannot be established is left out
run_dut_monitor_new_err_skipped ==
    /\ cmd = "monitor" /\ pc = "new"
    /\ cursor <= Len(args.duts)
    /\ cursor' = cursor + 1
    /\ UNCHANGED <<cache0, cmd, pc, args, result, stdout, registryVars, doVars,
                   listVars, discoverVars, monitorVars>>

\* MonitoredDut::new(dut, port)? fails
run_dut_monitor_new_err ==
    /\ cmd = "monitor" /\ pc = "new"
    /\ cursor <= Len(args.duts)
    /\ Return(Err("MonitoredDut::new", <<args.duts[cursor]>>))
    /\ UNCHANGED <<cache0, cmd, args, stdout, registryVars, doVars, listVars,
                   discoverVars, monitorVars, cursor>>

\* stdout().into_alternate_screen().unwrap() panics
run_dut_monitor_screen_err ==
    /\ cmd = "monitor" /\ pc = "new"
    /\ cursor > Len(args.duts)
    /\ Return(Err("into_alternate_screen", <<>>))
    /\ UNCHANGED <<cache0, cmd, args, stdout, registryVars, doVars, listVars,
                   discoverVars, monitorVars, cursor>>

\* mutant: a new cycle does not start again at the first target
run_dut_monitor_header_no_rewind ==
    /\ cmd = "monitor"
    /\ \/ pc = "new" /\ cursor > Len(args.duts)
       \/ pc = "sleep"
    /\ stdout' = <<[line |-> "header"]>>
    /\ pc' = "status"
    /\ UNCHANGED <<cache0, cmd, args, result, registryVars, doVars, listVars,
                   discoverVars, monitorVars, cursor>>

\* loop: clear the screen and draw the header
run_dut_monitor_header ==
    /\ cmd = "monitor"
    /\ \/ pc = "new" /\ cursor > Len(args.duts)
       \/ pc = "sleep"
    /\ stdout' = <<[line |-> "header"]>>
    /\ cursor' = 1
    /\ pc' = "status"
    /\ UNCHANGED <<cache0, cmd, args, result, registryVars, doVars, listVars,
                   discoverVars, monitorVars>>

\* write!(screen, ..)? fails
run_dut_monitor_header_err ==
    /\ cmd = "monitor"
    /\ \/ pc = "new" /\ cursor > Len(args.duts)
       \/ pc = "sleep"
    /\ Return(Err("write", <<>>))
    /\ UNCHANGED <<cache0, cmd, args, stdout, registryVars, doVars, listVars,
                   discoverVars, monitorVars, cursor>>

\* MonitoredDut::get_status(&mut self): the forwarding child may have been
\* restarted; the port of the target is not touched
MonitoredDut_get_status(t, c) == [t EXCEPT !.child = c]

\* println!("{}", target.get_status()?)
run_dut_monitor_status_ok ==
    /\ cmd = "monitor" /\ pc = "status"
    /\ cursor <= Len(targets)
    /\ \E c \in {"up", "restarted"} :
        targets' = [targets EXCEPT
                        ![cursor] = MonitoredDut_get_status(targets[cursor], c)]
    /\ stdout' = Append(stdout, [line |-> "status", target |-> cursor])
    /\ cursor' = cursor + 1
    /\ UNCHANGED <<cache0, cmd, pc, args, result, registryVars, doVars, listVars,
                   discoverVars, port>>

run_dut_monitor_status_err ==
    /\ cmd = "monitor" /\ pc = "status"
    /\ cursor <= Len(targets)
    /\ Return(Err("get_status", <<targets[cursor].dut>>))
    /\ UNCHANGED <<cache0, cmd, args, stdout, registryVars, doVars, listVars,
                   discoverVars, monitorVars, cursor>>

\* mutant: the loop ends by itself after one pass over the targets
run_dut_monitor_sleep_then_return ==
    /\ cmd = "monitor" /\ pc = "status"
    /\ cursor > Len(targets)
    /\ Return(Ok)
    /\ UNCHANGED <<cache0, cmd, args, stdout, registryVars, doVars, listVars,
                   discoverVars, monitorVars, cursor>>

\* thread::sleep(5 s)
run_dut_monitor_sleep ==
    /\ cmd = "monitor" /\ pc = "status"
    /\ cursor > Len(targets)
    /\ pc' = "sleep"
    /\ UNCHANGED <<cache0, cmd, args, result, stdout, registryVars, doVars, listVars,
                   discoverVars, monitorVars, cursor>>

\* the loop ends only when the process is interrupted from outside
interrupt ==
    /\ cmd = "monitor" /\ pc \in {"status", "sleep"}
    /\ Return([kind |-> "Killed", msg |-> "", names |-> <<>>])
    /\ UNCHANGED <<cache0, cmd, args, stdout, registryVars, doVars, listVars,
                   discoverVars, monitorVars, cursor>>

run_dut_monitor ==
    \/ run_dut_monitor_rsa_err
    \/ run_dut_monitor_begin
    \/ run_dut_monitor_new_ok
    \/ run_dut_monitor_new_err
    \/ run_dut_monitor_screen_err
    \/ run_dut_monitor_header
    \/ run_dut_monitor_header_err
    \/ run_dut_monitor_status_ok
    \/ run_dut_monitor_status_err
    \/ run_dut_monitor_sleep

\* ---------------------------------------------------------------- system
Init ==
    /\ cmd = "idle"
    /\ pc = "idle"
    /\ args = [none |-> TRUE]
    /\ result = Running
    /\ stdout = <<>>
    /\ cacheInit \in BOOLEAN
    /\ cache = EmptyMap
    /\ cache0 = EmptyMap
    /\ last_add = [id |-> NoId, ssh |-> NoDesc]
    /\ dut = NoDesc
    /\ executed = <<>>
    /\ duts = EmptyMap
    /\ statuses = EmptyMap
    /\ pending = {}
    /\ resolved = [id |-> NoId, ssh |-> NoDesc]
    /\ addrs = <<>>
    /\ reach = <<>>
    /\ probed = {}
    /\ found = {}
    /\ remote_calls = <<>>
    /\ targets = <<>>
    /\ port = 0
    /\ cursor = 0

\* One invocation runs one handler, and only `dut list` touches the
\* registry: each handler is also checked on its own, over every registry
\* its invocations can leave.
NextDo == start_dut_do \/ run_dut_do \/ exit

NextList == start_dut_list \/ run_dut_list \/ exit

NextDiscover == start_discover \/ run_discover \/ exit

NextMonitor == start_dut_monitor \/ run_dut_monitor \/ interrupt \/ exit

Next == NextDo \/ NextList \/ NextDiscover \/ NextMonitor

Spec == Init /\ [][Next]_vars

SpecDo == Init /\ [][NextDo]_vars

SpecList == Init /\ [][NextList]_vars

SpecDiscover == Init /\ [][NextDiscover]_vars

SpecMonitor == Init /\ [][NextMonitor]_vars

\* ---------------------------------------------------------------- claims

\* C1, as stated: whenever the action list holds a name that is not in the
\* table (reboot, login, tail_messages), run_dut_do returns an error, no
\* action has been executed, and the error lists every unknown name (read
\* in the claim's favour: an error of the key setup that precedes the
\* dispatcher counts as the error).
C1_UnknownAlwaysReported ==
    (/\ cmd = "do" /\ pc = "done"
     /\ \E i \in 1..Len(args.actions) :
            args.actions[i] \notin {"reboot", "login", "tail_messages"})
    => /\ result.kind = "Err"
       /\ executed = <<>>
       /\ result.msg # "testing_rsa" =>
            result = Err("Unknown action",
                         SelectSeqBy(args.actions,
                             ActionNames \ {"reboot", "login",
                                            "tail_messages"}))

\* C1, amended: with an unknown name in the list no action is ever executed
\* and the target is never resolved; and unless --list-actions was given
\* (then the table is printed and Ok returned) run_dut_do returns an error:
\* the one of the key setup, or else the one that lists every unknown name
\* in the order of the list.
C1_ValidatesBeforeExecuting ==
    (/\ cmd = "do"
     /\ \E i \in 1..Len(args.actions) :
            args.actions[i] \notin {"reboot", "login", "tail_messages"})
    => /\ executed = <<>>
       /\ dut = NoDesc
       /\ (pc = "done" /\ ~args.list_actions) =>
            \/ result = Err("testing_rsa", <<>>)
            \/ result = Err("Unknown action",
                            SelectSeqBy(args.actions,
                                ActionNames \ {"reboot", "login",
                                               "tail_messages"}))
       /\ (pc = "done" /\ args.list_actions) =>
            result \in {Ok, Err("testing_rsa", <<>>)}

\* C1 witness: a valid name followed by two unknown ones was rejected
C1_Witness ==
    /\ cmd = "do" /\ pc = "done"
    /\ args.actions = <<"reboot", "bogus", "nope">>
    /\ result = Err("Unknown action", <<"bogus", "nope">>)
    /\ executed = <<>>

\* C2: the actions invoked so far are the first names of the list, in the
\* order of the list and on one target; an action that failed is the last
\* one invoked and run_dut_do has returned the error that names it; a
\* dispatch that returned Ok has invoked every name of the list.
C2_OrderedShortCircuit ==
    cmd = "do" =>
        /\ Len(executed) <= Len(args.actions)
        /\ \A i \in 1..Len(executed) :
            /\ executed[i].f = args.actions[i]
            /\ executed[i].dut = executed[1].dut
            /\ ~executed[i].ok =>
                /\ i = Len(executed)
                /\ pc = "done"
                /\ result = Err("DUT action", <<args.actions[i]>>)
        /\ (pc = "done" /\ result = Ok /\ ~args.list_actions) =>
                /\ Len(executed) = Len(args.actions)
                /\ \A i \in 1..Len(executed) : executed[i].ok
        /\ (pc = "done" /\ result.msg = "DUT action") =>
                /\ executed # <<>>
                /\ ~executed[Len(executed)].ok

\* C2 witness: the second of three actions failed, the third (a repeat of
\* the first) was not invoked
C2_Witness ==
    /\ cmd = "do" /\ pc = "done"
    /\ args.actions = <<"login", "reboot", "login">>
    /\ Len(executed) = 2
    /\ executed[1].ok /\ ~executed[2].ok
    /\ result = Err("DUT action", <<"reboot">>)

\* C3: a completed probe has exactly one of the three statuses: Offline iff
\* the resolution failed, Online iff it returned the entry's own identity,
\* AddressReused iff it returned another dut_id or none; and once the
\* fan-out is joined every entry of the registry has a status.
C3_Classification ==
    cmd = "list" =>
        /\ (pc = "remove" \/ (pc = "done" /\ stdout # <<>>
                                /\ stdout[1].line = "status")) =>
                /\ DOMAIN statuses = DOMAIN cache0
                /\ \A id \in DOMAIN statuses : statuses[id] # Pending
        /\ \A id \in DOMAIN statuses :
            statuses[id] # Pending =>
                /\ statuses[id].status \in {"Online", "Offline", "AddressReused"}
                /\ statuses[id].status = "Offline" <=> ~statuses[id].info.ok
                /\ statuses[id].status = "Online" <=>
                        (statuses[id].info.ok /\ statuses[id].info.dut_id = id)
                /\ statuses[id].status = "AddressReused" <=>
                        (statuses[id].info.ok /\ statuses[id].info.dut_id # id)

\* C3 witness: one entry answered without a dut_id, another with its own
C3_Witness ==
    /\ cmd = "list" /\ pc = "done"
    /\ \E a, b \in DOMAIN statuses :
        /\ statuses[a].status = "AddressReused"
        /\ statuses[a].info.dut_id = NoId
        /\ statuses[b].status = "Online"

\* C4: while and after list --status (without --update) reconciles, the
\* registry is the one the invocation started with, and an AddressReused
\* entry is among the reported rows.
C4_StatusLeavesRegistry ==
    (/\ cmd = "list"
     /\ ~args.clear /\ ~args.ids /\ args.add = NoTarget /\ args.remove = NoId
     /\ args.status /\ ~args.update)
    => /\ cache = cache0
       /\ pending = {}
       /\ (pc = "done" /\ result = Ok) =>
            /\ Len(stdout) = 1
            /\ stdout[1].rows =
                 {[id |-> id, status |-> statuses[id].status,
                   ssh |-> cache0[id]] : id \in DOMAIN cache0}

\* C4 witness: status mode finished, an AddressReused entry is still cached
C4_Witness ==
    /\ cmd = "list" /\ pc = "done" /\ result = Ok
    /\ args.status /\ ~args.update
    /\ \E id \in DOMAIN statuses :
        /\ statuses[id].status = "AddressReused"
        /\ id \in DOMAIN cache

\* C5: after list --update returned Ok, the registry holds exactly the
\* entries of the starting registry whose status is Online or Offline, with
\* the descriptors they had.
C5_UpdatePrunesReused ==
    (/\ cmd = "list"
     /\ ~args.clear /\ ~args.ids /\ args.add = NoTarget /\ args.remove = NoId
     /\ args.update
     /\ pc = "done" /\ result = Ok)
    => cache = [id \in {k \in DOMAIN cache0 :
                          statuses[k].status \in {"Online", "Offline"}}
                |-> cache0[id]]

\* C5 witness: update mode removed an AddressReused entry and kept an
\* Offline one
C5_Witness ==
    /\ cmd = "list" /\ pc = "done" /\ result = Ok
    /\ args.update
    /\ \E a, b \in DOMAIN statuses :
        /\ statuses[a].status = "AddressReused" /\ a \notin DOMAIN cache
        /\ statuses[b].status = "Offline" /\ b \in DOMAIN cache

\* C6: at every point of the fan-out the collected results are exactly the
\* completed probes of candidates that answer, and a discovery that returned
\* Ok printed one result per answering candidate: K results for K of N.
C6_DiscoveryIsolation ==
    cmd = "discover" =>
        /\ found = {i \in probed : reach[i]}
        /\ (pc = "done" /\ result = Ok /\ args.remote = NoTarget) =>
            /\ Len(stdout) = 1
            /\ DOMAIN stdout[1].duts = {i \in 1..Len(addrs) : reach[i]}
            /\ \A i \in DOMAIN stdout[1].duts : stdout[1].duts[i] = addrs[i]

\* C6 witness: three candidates, the second does not answer, two results
C6_Witness ==
    /\ cmd = "discover" /\ pc = "done" /\ result = Ok
    /\ Len(addrs) = 3
    /\ reach = <<TRUE, FALSE, TRUE>>
    /\ DOMAIN stdout[1].duts = {1, 3}

\* C7: the i-th target (from 0) is the i-th identifier with port 4022 + i,
\* at every point of the monitor session.
C7_MonitorPorts ==
    cmd = "monitor" =>
        /\ Len(targets) <= Len(args.duts)
        /\ \A i \in 1..Len(targets) :
            /\ targets[i].dut = args.duts[i]
            /\ targets[i].port = 4022 + (i - 1)
        /\ \A i, j \in 1..Len(targets) :
            i < j => targets[i].port < targets[j].port

\* C7 witness: three targets, the first identifier given twice, after a
\* cycle in which a forwarding child was restarted
C7_Witness ==
    /\ cmd = "monitor" /\ pc = "sleep"
    /\ Len(targets) = 3
    /\ targets[1].dut = targets[3].dut
    /\ targets[2].child = "restarted"
    /\ targets[3].port = 4024

\* C8: after list --add returned Ok the registry is the starting registry
\* with the resolved identity mapped to the resolved descriptor: one entry
\* per identity, the new descriptor wins, every other entry is kept.
C8_AddKeepsIdentitiesUnique ==
    (/\ cmd = "list"
     /\ ~args.clear /\ ~args.ids /\ args.add # NoTarget
     /\ pc = "done" /\ result = Ok)
    => /\ DOMAIN cache = DOMAIN cache0 \cup {resolved.id}
       /\ cache[resolved.id] = resolved.ssh
       /\ \A k \in DOMAIN cache0 \ {resolved.id} : cache[k] = cache0[k]
       /\ Cardinality(DOMAIN cache) =
            Cardinality(DOMAIN cache0)
            + (IF resolved.id \in DOMAIN cache0 THEN 0 ELSE 1)

\* C8 witness: an identity cached with another descriptor was added again
\* next to a second identity
C8_Witness ==
    /\ cmd = "list" /\ pc = "done" /\ result = Ok
    /\ args.add # NoTarget
    /\ resolved.id \in DOMAIN cache0
    /\ cache0[resolved.id] # resolved.ssh
    /\ cache[resolved.id] = resolved.ssh
    /\ Cardinality(DOMAIN cache) = 2

C10_ClearEmpties ==
    (cmd = "list" /\ args.clear /\ pc = "done" /\ result = Ok)
    => /\ SSH_CACHE_entries_ok
       /\ cache = EmptyMap

\* C10 witness: a registry with entries was cleared though --ids, --add,
\* --remove and --update were given too
C10_Witness ==
    /\ cmd = "list" /\ pc = "done" /\ result = Ok
    /\ args.clear /\ args.ids /\ args.update
    /\ args.add # NoTarget /\ args.remove # NoId
    /\ cache0 # EmptyMap
    /\ cache = EmptyMap

\* C11: a plain list that follows a successful --add (nothing removed or
\* cleared in between) prints the identity and the descriptor the resolution
\* of the added target produced, next to every other entry of the registry;
\* and the --add itself left every other entry as it was.
C11_AddListRoundTrip ==
    cmd = "list" =>
        /\ (/\ ~args.clear /\ ~args.ids /\ args.add = NoTarget
            /\ args.remove = NoId /\ ~args.status /\ ~args.update
            /\ pc = "done" /\ result = Ok
            /\ last_add.id # NoId)
           => /\ Len(stdout) = 1
              /\ [id |-> last_add.id, ssh |-> last_add.ssh] \in stdout[1].rows
              /\ \A r \in stdout[1].rows : r.id = last_add.id
                                              => r.ssh = last_add.ssh
              /\ {r.id : r \in stdout[1].rows} = DOMAIN cache
              /\ \A r \in stdout[1].rows : r.ssh = cache[r.id]
        /\ (/\ ~args.clear /\ ~args.ids /\ args.add # NoTarget
            /\ pc = "done" /\ result = Ok)
           => /\ last_add = resolved
              /\ resolved.id \in Ids /\ resolved.ssh \in Descs
              /\ \A k \in DOMAIN cache0 \ {resolved.id} :
                    k \in DOMAIN cache /\ cache[k] = cache0[k]
              /\ \A k \in DOMAIN cache \ {resolved.id} : k \in DOMAIN cache0

\* C11 witness: a plain list printed the entry a previous invocation added,
\* and one more
C11_Witness ==
    /\ cmd = "list" /\ pc = "done" /\ result = Ok
    /\ ~args.clear /\ ~args.ids /\ args.add = NoTarget
    /\ args.remove = NoId /\ ~args.status /\ ~args.update
    /\ last_add.id # NoId
    /\ Cardinality(stdout[1].rows) = 2
    /\ [id |-> last_add.id, ssh |-> last_add.ssh] \in stdout[1].rows

\* C12: with an unreadable or uninitialised registry store, a plain list, a
\* --status and an --update return the error "SSH_CACHE is not initialized
\* yet" at once: nothing is printed, no probe is started and the registry is
\* left as it was.
C12_UninitializedIsAnError ==
    (/\ cmd = "list" /\ ~cacheInit
     /\ ~args.clear /\ ~args.ids /\ args.add = NoTarget /\ args.remove = NoId)
    => /\ pc \in {"clear", "done"}
       /\ pc = "done"
            => result = Err("SSH_CACHE is not initialized yet", <<>>)
       /\ stdout = <<>>
       /\ duts = EmptyMap
       /\ statuses = EmptyMap
       /\ pending = {}
       /\ cache = cache0

\* C12 witness: an --update on an uninitialised registry ended in the error
C12_Witness ==
    /\ cmd = "list" /\ pc = "done" /\ ~cacheInit
    /\ ~args.clear /\ ~args.ids /\ args.add = NoTarget /\ args.remove = NoId
    /\ args.update
    /\ result = Err("SSH_CACHE is not initialized yet", <<>>)

\* C13 (as stated): once the loop runs, run_dut_monitor ends only by an
\* interruption from outside; no step of the loop returns. (A failure of
\* the terminal write is left aside here: rendering is outside the loop's
\* own logic.)
C13_LoopNeverReturns ==
    [][(cmd = "monitor" /\ pc \in {"status", "sleep"} /\ pc' = "done")
        => (result'.kind = "Killed" \/ result' = Err("write", <<>>))]_vars

\* C13 (amended): the loop never returns Ok. It is left only by an
\* interruption from outside or by the error of the header write or of a
\* target's status query, which the `?` in the loop body returns.
C13_LoopEndsByInterruptOrError ==
    [][(/\ cmd = "monitor" /\ pc' = "done"
        /\ \/ pc \in {"status", "sleep"}
           \/ pc = "new" /\ cursor > Len(args.duts))
        => /\ result' # Ok
           /\ \/ result'.kind = "Killed"
              \/ result' = Err("into_alternate_screen", <<>>) /\ pc = "new"
              \/ result' = Err("write", <<>>) /\ pc \in {"new", "sleep"}
              \/ /\ pc = "status" /\ cursor <= Len(targets)
                 /\ result' = Err("get_status", <<targets[cursor].dut>>)]_vars

\* C13 witness: the status query of the second of two targets failed and
\* ended the loop
C13_Witness ==
    /\ cmd = "monitor" /\ pc = "done"
    /\ Len(targets) = 2 /\ cursor = 2 /\ Len(stdout) = 2
    /\ result = Err("get_status", <<targets[2].dut>>)

\* C17: targets are constructed in input order with no gap; when the
\* session of the k-th cannot be established run_dut_monitor returns that
\* error with the first k-1 targets constructed, none after, and nothing
\* drawn or queried; the loop runs only over the complete list.
C17_ConstructionFailsFast ==
    cmd = "monitor" =>
        /\ pc = "new" => Len(targets) = cursor - 1
        /\ Len(targets) <= Len(args.duts)
        /\ \A i \in 1..Len(targets) : targets[i].dut = args.duts[i]
        /\ result.msg = "MonitoredDut::new"
            => /\ pc = "done"
               /\ cursor <= Len(args.duts)
               /\ result = Err("MonitoredDut::new", <<args.duts[cursor]>>)
               /\ Len(targets) = cursor - 1
               /\ stdout = <<>>
        /\ (pc \in {"status", "sleep"} \/ stdout # <<>>)
            => Len(targets) = Len(args.duts)

\* C17 witness: the second of three targets failed after the first was built
C17_Witness ==
    /\ cmd = "monitor" /\ pc = "done"
    /\ Len(args.duts) = 3 /\ cursor = 2 /\ Len(targets) = 1
    /\ result = Err("MonitoredDut::new", <<args.duts[2]>>)
    /\ stdout = <<>>

\* C18: within a cycle the screen holds the header followed by one status
\* line per target already queried, in input order and without repetition;
\* the sleep is reached with all targets queried once; the targets and
\* their ports are those constructed at the start in every cycle.
C18_CycleIsOneSequentialPass ==
    (cmd = "monitor" /\ pc \in {"status", "sleep"}) =>
        /\ cursor \in 1..(Len(targets) + 1)
        /\ pc = "sleep" => cursor = Len(targets) + 1
        /\ Len(stdout) = cursor
        /\ stdout[1] = [line |-> "header"]
        /\ \A i \in 1..(cursor - 1) :
              stdout[i + 1] = [line |-> "status", target |-> i]
        /\ Len(targets) = Len(args.duts)
        /\ \A i \in 1..Len(targets) :
              /\ targets[i].dut = args.duts[i]
              /\ targets[i].port = BasePort + i - 1

\* C18 witness: a pass over three targets is complete and the loop sleeps,
\* the forwarding child of the second target having been restarted
C18_Witness ==
    /\ cmd = "monitor" /\ pc = "sleep"
    /\ Len(targets) = 3 /\ Len(stdout) = 4
    /\ targets[2].child = "restarted"

\* C14: in --status/--update the probes work on the snapshot taken before
\* the fan-out: while a probe is still running the registry is as the
\* invocation found it and nothing is queued for removal; the registry
\* changes only in the removal loop after the join, one entry of the queue
\* per step, and the snapshot is never touched.
C14_PruneAfterJoin ==
    [][(/\ cmd' = "list" /\ ~args'.clear /\ ~args'.ids
        /\ args'.add = NoTarget /\ args'.remove = NoId
        /\ args'.status \/ args'.update)
        => /\ (\E id \in DOMAIN statuses' : statuses'[id] = Pending)
                => /\ pc' = "probe"
                   /\ cache' = cache0'
                   /\ pending' = {}
           /\ pc' \in {"probe", "remove"} => duts' = cache0'
           /\ pc' = "probe" => cache' = cache0'
           /\ cache' # cache
                => /\ pc = "remove"
                   /\ \A id \in DOMAIN statuses : statuses[id] # Pending
                   /\ DOMAIN statuses = DOMAIN duts
                   /\ duts' = duts
                   /\ \E row \in pending :
                        /\ pending' = pending \ {row}
                        /\ cache' = [k \in DOMAIN cache \ {row.id}
                                        |-> cache[k]]]_vars

\* C14 witness: the removal loop has taken one entry out of the registry
\* and another is still queued
C14_Witness ==
    /\ cmd = "list" /\ pc = "remove" /\ args.update
    /\ cache # cache0
    /\ pending # {}
    /\ \A id \in DOMAIN statuses : statuses[id] # Pending

\* C16: after the join there is one (identity, status, descriptor) result
\* per entry of the snapshot, whatever the probes returned; --status prints
\* all of them and leaves the registry alone; --update prints those that
\* are not AddressReused and queues the others for removal, each entry in
\* exactly one of the two, and a run that ends Ok has removed exactly the
\* queued ones.
C16_ProbeFailuresContained ==
    (/\ cmd = "list" /\ ~args.clear /\ ~args.ids
     /\ args.add = NoTarget /\ args.remove = NoId
     /\ args.status \/ args.update
     /\ pc = "remove" \/ (pc = "done" /\ stdout # <<>>))
    => LET reported == stdout[1].rows
           reused == {id \in DOMAIN cache0 :
                        statuses[id].status = "AddressReused"}
           listed == {stdout[i].row.id :
                        i \in {j \in 3..Len(stdout) :
                                    stdout[j].line = "removed"}}
       IN /\ DOMAIN statuses = DOMAIN cache0
          /\ \A id \in DOMAIN cache0 : statuses[id].status \in DutStatus
          /\ stdout[1].line = "status"
          /\ \A r \in reported :
                /\ r.id \in DOMAIN cache0
                /\ r.status = statuses[r.id].status
                /\ r.ssh = cache0[r.id]
          /\ Cardinality(reported) = Cardinality({r.id : r \in reported})
          /\ ~args.update
                => /\ {r.id : r \in reported} = DOMAIN cache0
                   /\ Len(stdout) = 1
                   /\ cache = cache0
          /\ args.update
                => /\ {r.id : r \in reported} = DOMAIN cache0 \ reused
                   /\ {r.id : r \in pending} \cup listed = reused
                   /\ {r.id : r \in pending} \cap (DOMAIN cache0 \ DOMAIN cache)
                        = {}
                   /\ (pc = "done" /\ result = Ok)
                        => /\ DOMAIN cache = DOMAIN cache0 \ reused
                           /\ listed = reused

\* C16 witness: of two entries one probe failed and one found the address
\* reused; --update printed the first and removed the second
C16_Witness ==
    /\ cmd = "list" /\ pc = "done" /\ result = Ok
    /\ ~args.clear /\ ~args.ids /\ args.add = NoTarget /\ args.remove = NoId
    /\ args.update
    /\ Cardinality(DOMAIN cache0) = 2
    /\ DOMAIN statuses = DOMAIN cache0
    /\ Len(stdout) = 3
    /\ \E a, b \in DOMAIN cache0 :
        /\ statuses[a].status = "Offline"
        /\ statuses[b].status = "AddressReused"
        /\ DOMAIN cache = {a}
        /\ {r.id : r \in stdout[1].rows} = {a}

\* C20: an invocation of run_dut_list carries out the one operation that
\* comes first in clear, ids, add, remove, status/update, plain list, and
\* shows no effect of any flag that comes later: the registry is what that
\* one operation makes of the registry the invocation found, and --ids,
\* --status and the plain list leave it as it was.
C20_OneOperationByPrecedence ==
    cmd = "list" =>
        LET none == [id |-> NoId, ssh |-> NoDesc]
            lines == {stdout[i].line : i \in 1..Len(stdout)}
        IN
        /\ args.clear
            => /\ cache \in {cache0, EmptyMap}
               /\ (pc = "done" /\ result = Ok) => cache = EmptyMap
               /\ stdout = <<>> /\ resolved = none /\ statuses = EmptyMap
        /\ (~args.clear /\ args.ids)
            => /\ cache = cache0
               /\ lines \subseteq {"ids"}
               /\ resolved = none /\ statuses = EmptyMap
        /\ (~args.clear /\ ~args.ids /\ args.add # NoTarget)
            => /\ \/ cache = cache0
                  \/ /\ resolved.id \in Ids
                     /\ DOMAIN cache = DOMAIN cache0 \cup {resolved.id}
                     /\ \A k \in DOMAIN cache :
                           cache[k] = IF k = resolved.id THEN resolved.ssh
                                      ELSE cache0[k]
               /\ lines \subseteq {"Added"}
               /\ statuses = EmptyMap /\ pending = {}
        /\ (~args.clear /\ ~args.ids /\ args.add = NoTarget
            /\ args.remove # NoId)
            => /\ \/ cache = cache0
                  \/ /\ DOMAIN cache = DOMAIN cache0 \ {args.remove}
                     /\ \A k \in DOMAIN cache : cache[k] = cache0[k]
               /\ stdout = <<>>
               /\ resolved = none /\ statuses = EmptyMap /\ pending = {}
        /\ (~args.clear /\ ~args.ids /\ args.add = NoTarget
            /\ args.remove = NoId /\ (args.status \/ args.update))
            => /\ DOMAIN cache \subseteq DOMAIN cache0
               /\ \A k \in DOMAIN cache : cache[k] = cache0[k]
               /\ ~args.update => cache = cache0
               /\ lines \subseteq {"status", "Following DUTs are removed: ",
                                    "removed"}
               /\ resolved = none
        /\ (~args.clear /\ ~args.ids /\ args.add = NoTarget
            /\ args.remove = NoId /\ ~args.status /\ ~args.update)
            => /\ cache = cache0
               /\ lines \subseteq {"list"}
               /\ resolved = none /\ statuses = EmptyMap /\ pending = {}

\* C20 witness: --add, --remove and --update were given together; the new
\* entry was stored and the entry named by --remove is still there
C20_Witness ==
    /\ cmd = "list" /\ pc = "done" /\ result = Ok
    /\ ~args.clear /\ ~args.ids
    /\ args.add # NoTarget /\ args.remove # NoId /\ args.update
    /\ args.remove \in DOMAIN cache
    /\ resolved.id \in DOMAIN cache \ DOMAIN cache0
    /\ cache[resolved.id] = resolved.ssh

\* C15: with --remote, run_discover copies the executable to ~/ on the
\* remote host, runs "~/lium dut discover" followed by the extra attribute
\* names there, and returns; no candidate is enumerated or probed locally
\* and nothing is printed locally, whatever --interface or --target-list
\* say.
C15_RemoteDiscoveryOnly ==
    (cmd = "discover" /\ args.remote # NoTarget)
    => /\ pc \in {"mode", "remote_run", "done"}
       /\ addrs = <<>> /\ reach = <<>> /\ probed = {} /\ found = {}
       /\ stdout = <<>>
       /\ \/ remote_calls = <<>> /\ result # Ok
          \/ /\ remote_calls = << <<"send_files", "~/">> >>
             /\ pc \in {"remote_run"}
          \/ /\ remote_calls =
                    << <<"send_files", "~/">>,
                       <<"~/lium dut discover">> \o args.extra_attr >>
             /\ pc = "done"
             /\ result \in {Ok, Err("run_cmd_piped", <<>>)}

\* C15 witness: a remote discovery with an interface, a target list and an
\* extra attribute returned Ok
C15_Witness ==
    /\ cmd = "discover" /\ pc = "done" /\ result = Ok
    /\ args.remote # NoTarget /\ args.target_list /\ args.interface
    /\ args.extra_attr = <<"board">>
    /\ Len(remote_calls) = 2

\* C19: when the action list is empty or holds an unknown name (and
\* --list-actions is not set) run_dut_do never resolves the target and
\* executes nothing; it ends in an error, which is the validation error
\* unless the key setup failed first, and never an error about --dut.
C19_ValidationBeforeResolution ==
    (/\ cmd = "do" /\ ~args.list_actions
     /\ \/ args.actions = <<>>
        \/ \E i \in 1..Len(args.actions) : args.actions[i] \notin DUT_ACTIONS)
    => /\ pc \in {"rsa", "done"}
       /\ dut = NoDesc
       /\ executed = <<>>
       /\ pc = "done"
            => /\ result.kind = "Err"
               /\ result.msg \in {"Unknown action", "testing_rsa"}
               /\ result.msg = "Unknown action"
                    => result.names = unknown_actions(args.actions)

\* C19 witness: an empty action list without --dut ended in the validation
\* error
C19_Witness ==
    /\ cmd = "do" /\ pc = "done" /\ ~args.list_actions
    /\ args.actions = <<>> /\ args.dut = NoTarget
    /\ result = Err("Unknown action", <<>>)

====
